---- MODULE Spec2Model ----
(***************************************************************************)
(* Portfolio ledger (portfolio_db.py) and order execution engine           *)
(* (trading_engine.py) of the stock market simulator.                      *)
(*                                                                         *)
(* Amounts.  The REAL columns and the Python values are IEEE doubles.      *)
(* The model keeps every amount as an integer number of representable      *)
(* units: sums, differences and products of the amounts used here are      *)
(* exact, and a quotient is rounded to the nearest unit, as a float        *)
(* quotient is rounded to the nearest representable value (FloatDiv).      *)
(*                                                                         *)
(* Storage.  Every portfolio_db function opens its own connection and      *)
(* commits on its own; a call either applies its statement and commits,    *)
(* or raises sqlite3.Error and applies nothing.  Which call of a handler   *)
(* raises, if any, is an input of the handler (fault).                     *)
(***************************************************************************)
EXTENDS Integers, Sequences, FiniteSets, TLC

INITIAL_CASH == 100000

\* ---- bounds of the model ----
MaxCalls == 3

\* the trigger_refresh calls of a behaviour
MaxRefreshes == 4

\* ---- the inputs the calls are drawn from ----
Symbols == {"X", "Y"}
OrderTypes == {"BUY", "SELL", "HOLD"}
Quantities == {-1, 0, 1, 2}
Prices == {20000, 30000}
Amounts == {0, 10000}
Faults == {"none", "get_cash_balance", "update_holding", "update_cash_balance", "log_transaction"}

\* get_live_quote: None, or a quote with a price
QuoteResults ==
    {[available |-> FALSE, price |-> 0]} \cup {[available |-> TRUE, price |-> p] : p \in Prices}


VARIABLES
    Account,        \* table Account: id -> cash_balance
    Holdings,       \* table Holdings: symbol -> [quantity, average_price]
    Transactions,   \* table Transactions, in id order
    Watchlist,      \* table Watchlist: set of symbols
    result,         \* the last call: what it returned, (success, message), or raised
    faulted,        \* history: has a storage call raised so far
    calls,          \* history: the number of calls made so far
    trader,         \* overlapping place_order calls: of each its order, position and locals
    reader,         \* a reader beside them: its position and what it has read so far
    refresh         \* MainWindow and its RefreshWorker threads: worker_thread, the workers, the button

vars == <<Account, Holdings, Transactions, Watchlist, result, faulted, calls, trader, reader, refresh>>

\* the threads beside the GUI thread
threadVars == <<trader, reader, refresh>>

\* ---- values ----

\* a / b in float arithmetic: the quotient rounded to the nearest unit
FloatDiv(a, b) == (2 * a + b) \div (2 * b)

Msg(template, symbol, args) == [template |-> template, symbol |-> symbol, args |-> args]

NoMsg == Msg("", "", <<>>)

\* what a call hands back: (success, message), or the exception that leaves it;
\* error is the class of the failure in the error taxonomy
Outcome(op, success, error, raised, message) ==
    [op |-> op, success |-> success, error |-> error, raised |-> raised, message |-> message]

BoughtText == "Successfully BOUGHT {quantity} of {symbol} at ${price:,.2f}."

SoldText == "Successfully SOLD {quantity} of {symbol} at ${price:,.2f}."

\* ---- portfolio_db.py ----

get_cash_balance(A) == A[1]

\* a bug: the balance is set to the amount instead of changed by it
update_cash_balance_Set(A, amount) == [A EXCEPT ![1] = amount]

update_cash_balance(A, amount) == [A EXCEPT ![1] = A[1] + amount]

\* a bug: the new record is put in front of the others
log_transaction_InFront(T, symbol, type, quantity, price) ==
    <<[symbol |-> symbol, type |-> type, quantity |-> quantity, price |-> price]>> \o T

\* a bug: the columns quantity and price are bound in the wrong order
log_transaction_Swapped(T, symbol, type, quantity, price) ==
    Append(T, [symbol |-> symbol, type |-> type, quantity |-> price, price |-> quantity])

\* the timestamp column is written here and read by no operation: it is left out
log_transaction(T, symbol, type, quantity, price) ==
    Append(T, [symbol |-> symbol, type |-> type, quantity |-> quantity, price |-> price])

\* a bug: the DELETE matches no row
DeleteRow_Nothing(f, k) == f

\* the function f without the row of key k
DeleteRow(f, k) == [x \in DOMAIN f \ {k} |-> f[x]]

\* the function f with the row k -> v added
InsertRow(f, k, v) == [x \in DOMAIN f \cup {k} |-> IF x = k THEN v ELSE f[x]]

\* a bug: the mean of the old average and the new price, whatever the quantities
NewAvgPrice_Unweighted(current_qty, current_avg_price, quantity_change, price) ==
    IF quantity_change > 0 THEN FloatDiv(current_avg_price + price, 2)
    ELSE IF current_qty + quantity_change = 0 THEN 0
    ELSE current_avg_price

\* new_avg_price of update_holding for an existing row
NewAvgPrice(current_qty, current_avg_price, quantity_change, price) ==
    LET new_qty == current_qty + quantity_change
        total_cost_old == current_qty * current_avg_price
        cost_new_shares == quantity_change * price
    IN  IF quantity_change > 0 THEN FloatDiv(total_cost_old + cost_new_shares, new_qty)
        ELSE IF new_qty = 0 THEN 0
        ELSE current_avg_price

\* a bug: the row is always updated, a sold-out holding stays with quantity 0
WriteHolding_KeepZero(H, symbol, new_qty, new_avg_price) ==
    [H EXCEPT ![symbol] = [quantity |-> new_qty, average_price |-> new_avg_price]]

\* a bug: the UPDATE and the DELETE have no WHERE clause, they take every row
WriteHolding_NoWhere(H, symbol, new_qty, new_avg_price) ==
    IF new_qty > 0
    THEN [x \in DOMAIN H |-> [quantity |-> new_qty, average_price |-> new_avg_price]]
    ELSE [x \in {} |-> 0]

\* the row written (or deleted) for an existing holding with new_qty >= 0
WriteHolding(H, symbol, new_qty, new_avg_price) ==
    IF new_qty > 0
    THEN [H EXCEPT ![symbol] = [quantity |-> new_qty, average_price |-> new_avg_price]]
    ELSE DeleteRow(H, symbol)

\* a bug: the test is off by one
SellsMoreThanHeld_OffByOne(new_qty) == new_qty < -1

\* does update_holding refuse the change to an existing row
SellsMoreThanHeld(new_qty) == new_qty < 0

\* a bug: the average_price column of the new row is left at its default
UpdateMissingHolding_NoPrice(H, symbol, quantity_change, price) ==
    IF quantity_change > 0
    THEN [exc |-> "none", message |-> NoMsg,
          Holdings |-> InsertRow(H, symbol, [quantity |-> quantity_change, average_price |-> 0])]
    ELSE [exc |-> "ValueError",
          message |-> Msg("Cannot sell {symbol}. You do not own this stock.", symbol, <<>>),
          Holdings |-> H]

\* a bug: the row is inserted whatever the sign of the change
UpdateMissingHolding_InsertAlways(H, symbol, quantity_change, price) ==
    [exc |-> "none", message |-> NoMsg,
     Holdings |-> InsertRow(H, symbol, [quantity |-> quantity_change, average_price |-> price])]

\* update_holding without a row for the symbol
UpdateMissingHolding(H, symbol, quantity_change, price) ==
    IF quantity_change > 0
    THEN [exc |-> "none", message |-> NoMsg,
          Holdings |-> InsertRow(H, symbol, [quantity |-> quantity_change, average_price |-> price])]
    ELSE [exc |-> "ValueError",
          message |-> Msg("Cannot sell {symbol}. You do not own this stock.", symbol, <<>>),
          Holdings |-> H]

update_holding(H, symbol, quantity_change, price) ==
    IF symbol \in DOMAIN H
    THEN LET current_qty == H[symbol].quantity
             current_avg_price == H[symbol].average_price
             new_qty == current_qty + quantity_change
         IN  IF SellsMoreThanHeld(new_qty)
             THEN [exc |-> "ValueError",
                   message |-> Msg("Insufficient quantity to sell. You only have {current_qty}.",
                                   "", <<current_qty>>),
                   Holdings |-> H]
             ELSE [exc |-> "none", message |-> NoMsg,
                   Holdings |-> WriteHolding(H, symbol, new_qty,
                                    NewAvgPrice(current_qty, current_avg_price, quantity_change, price))]
    ELSE UpdateMissingHolding(H, symbol, quantity_change, price)

\* get_holdings: the rows of Holdings as records symbol, quantity, avg_price
get_holdings(H) ==
    {[symbol |-> x, quantity |-> H[x].quantity, avg_price |-> H[x].average_price] : x \in DOMAIN H}

\* get_transactions: the records of the log, the most recent first (ORDER BY id DESC)
get_transactions(T) == [i \in 1..Len(T) |-> T[Len(T) + 1 - i]]

EmptyTable == [x \in {} |-> 0]

\* the Account row that initialize_database leaves behind
initialize_database(A) ==
    IF Cardinality(DOMAIN A) = 0 THEN InsertRow(A, 1, INITIAL_CASH) ELSE A

add_to_watchlist(W, symbol) == W \cup {symbol}

remove_from_watchlist(W, symbol) == W \ {symbol}

\* add_virtual_cash: no try block, an exception of a storage call leaves it
add_virtual_cash(db, amount, fault) ==
    IF amount <= 0
    THEN [db |-> db,
          result |-> Outcome("add_virtual_cash", FALSE, "InvalidAmount", FALSE,
                             Msg("Amount must be positive.", "", <<>>))]
    ELSE IF fault = "update_cash_balance"
    THEN [db |-> db,
          result |-> Outcome("add_virtual_cash", FALSE, "StorageFailure", TRUE, NoMsg)]
    ELSE LET db1 == [db EXCEPT !.Account = update_cash_balance(db.Account, amount)]
         IN  IF fault = "log_transaction"
             THEN [db |-> db1,
                   result |-> Outcome("add_virtual_cash", FALSE, "StorageFailure", TRUE, NoMsg)]
             ELSE [db |-> [db1 EXCEPT !.Transactions =
                               log_transaction(db1.Transactions, "CASH", "DEPOSIT", 1, amount)],
                   result |-> Outcome("add_virtual_cash", TRUE, "none", FALSE,
                                      Msg("Successfully added ${amount:,.2f}.", "", <<amount>>))]

\* ---- trading_engine.py ----

\* a bug: the funds test is left out
InsufficientCash_Never(total_cost, current_cash) == FALSE

\* a bug: a BUY that takes all the cash is refused as well
InsufficientCash_NotStrict(total_cost, current_cash) == total_cost >= current_cash

\* the funds test of a BUY
InsufficientCash(total_cost, current_cash) == total_cost > current_cash

StorageError == [exc |-> "sqlite3.Error", message |-> Msg("{e}", "", <<>>)]

\* the body of the try block: update_holding, update_cash_balance, log_transaction,
\* each committed on its own, up to the first call that raises
TryBlock(db, symbol, order_type, quantity, price, total_cost, fault) ==
    LET quantity_change == IF order_type = "BUY" THEN quantity ELSE -quantity
        amount == IF order_type = "BUY" THEN -total_cost ELSE total_cost
        uh == IF fault = "update_holding"
              THEN [exc |-> StorageError.exc, message |-> StorageError.message,
                    Holdings |-> db.Holdings]
              ELSE update_holding(db.Holdings, symbol, quantity_change, price)
        db1 == [db EXCEPT !.Holdings = uh.Holdings]
        db2 == [db1 EXCEPT !.Account = update_cash_balance(db1.Account, amount)]
        db3 == [db2 EXCEPT !.Transactions =
                    log_transaction(db2.Transactions, symbol, order_type, quantity, price)]
    IN  IF uh.exc # "none" THEN [db |-> db, exc |-> uh.exc, message |-> uh.message]
        ELSE IF fault = "update_cash_balance"
        THEN [db |-> db1, exc |-> StorageError.exc, message |-> StorageError.message]
        ELSE IF fault = "log_transaction"
        THEN [db |-> db2, exc |-> StorageError.exc, message |-> StorageError.message]
        ELSE [db |-> db3, exc |-> "none", message |-> NoMsg]

\* the except clause of the BUY branch: every exception becomes a failure result
BuyOutcome(t, symbol, quantity, price) ==
    IF t.exc = "none"
    THEN Outcome("place_order", TRUE, "none", FALSE, Msg(BoughtText, symbol, <<quantity, price>>))
    ELSE Outcome("place_order", FALSE, "StorageFailure", FALSE,
                 Msg("Error during BUY: {e}", t.message.symbol, t.message.args))

\* the except clauses of the SELL branch: ValueError first, then every other exception
SellOutcome(t, symbol, quantity, price) ==
    IF t.exc = "none"
    THEN Outcome("place_order", TRUE, "none", FALSE, Msg(SoldText, symbol, <<quantity, price>>))
    ELSE IF t.exc = "ValueError"
    THEN Outcome("place_order", FALSE, "InsufficientHoldingError", FALSE, t.message)
    ELSE Outcome("place_order", FALSE, "StorageFailure", FALSE,
                 Msg("Error during SELL: {e}", t.message.symbol, t.message.args))

\* a bug: the quantity is tested before the order type
Validation_QuantityFirst(quantity, order_type) ==
    IF quantity <= 0 THEN "InvalidQuantity"
    ELSE IF order_type \notin {"BUY", "SELL"} THEN "InvalidOrderType"
    ELSE "none"

\* a bug: only a negative quantity is refused
Validation_ZeroAllowed(quantity, order_type) ==
    IF order_type \notin {"BUY", "SELL"} THEN "InvalidOrderType"
    ELSE IF quantity < 0 THEN "InvalidQuantity"
    ELSE "none"

\* the two tests of the arguments, in the order of the code
Validation(quantity, order_type) ==
    IF order_type \notin {"BUY", "SELL"} THEN "InvalidOrderType"
    ELSE IF quantity <= 0 THEN "InvalidQuantity"
    ELSE "none"

\* a bug: the answer of the quote provider is not tested
QuoteMissing_Never(quote) == FALSE

\* "if not quote": get_live_quote returned None
QuoteMissing(quote) == ~quote.available

\* asked tells whether the call went as far as get_live_quote
place_order(db, symbol, quantity, order_type, quote, fault) ==
    IF Validation(quantity, order_type) = "InvalidOrderType"
    THEN [db |-> db, asked |-> FALSE,
          result |-> Outcome("place_order", FALSE, "InvalidOrderType", FALSE,
                             Msg("Invalid order type.", "", <<>>))]
    ELSE IF Validation(quantity, order_type) = "InvalidQuantity"
    THEN [db |-> db, asked |-> FALSE,
          result |-> Outcome("place_order", FALSE, "InvalidQuantity", FALSE,
                             Msg("Quantity must be positive.", "", <<>>))]
    ELSE IF QuoteMissing(quote)
    THEN [db |-> db, asked |-> TRUE,
          result |-> Outcome("place_order", FALSE, "QuoteUnavailable", FALSE,
                             Msg("Could not get live price for {symbol}. Check symbol or API key.",
                                 symbol, <<>>))]
    ELSE LET price == quote.price
             total_cost == price * quantity
         IN  IF fault = "get_cash_balance"
             THEN [db |-> db, asked |-> TRUE,
                   result |-> Outcome("place_order", FALSE, "StorageFailure", TRUE, NoMsg)]
             ELSE LET current_cash == get_cash_balance(db.Account)
                      t == TryBlock(db, symbol, order_type, quantity, price, total_cost, fault)
                  IN  IF order_type = "BUY"
                      THEN IF InsufficientCash(total_cost, current_cash)
                           THEN [db |-> db, asked |-> TRUE,
                                 result |-> Outcome("place_order", FALSE, "InsufficientFunds", FALSE,
                                     Msg("Insufficient cash. Need ${total_cost:,.2f}, have ${current_cash:,.2f}.",
                                         "", <<total_cost, current_cash>>))]
                           ELSE [db |-> t.db, asked |-> TRUE,
                                 result |-> BuyOutcome(t, symbol, quantity, price)]
                      ELSE [db |-> t.db, asked |-> TRUE,
                            result |-> SellOutcome(t, symbol, quantity, price)]

\* ---- the program as a state machine ----

DB == [Account |-> Account, Holdings |-> Holdings, Transactions |-> Transactions]

NoQuote == [available |-> FALSE, price |-> 0]

\* every order the user can place with every answer of its collaborators: the quote
\* provider, asked only once order_type and quantity are accepted, and the storage
\* call that raises, if any, met only once there is a quote
Unasked == [symbol : Symbols, quantity : Quantities, order_type : OrderTypes,
            quote : {NoQuote}, fault : {"none"}]

Asked == [symbol : Symbols, quantity : {q \in Quantities : q > 0}, order_type : {"BUY", "SELL"},
          quote : QuoteResults \ {NoQuote}, fault : Faults]

Orders == Unasked \cup Asked

\* place_order on the current database
Placed(o) == place_order(DB, o.symbol, o.quantity, o.order_type, o.quote, o.fault)

\* the place_order calls that may overlap
Traders == {1, 2}

\* what the SELECT of update_holding returned: no row, or quantity and average_price
NoRow == [found |-> FALSE, quantity |-> 0, average_price |-> 0]

\* no thread beside the GUI thread has been started
Idle == <<>>

\* a place_order call: its arguments and quote, where it stands, the row its
\* update_holding has read, and the class of its failure once it has returned
Call(order, pc) == [order |-> order, pc |-> pc, row |-> NoRow, error |-> "none"]

\* a reader: where it stands and what its three reads have returned
Reading(pc) == [pc |-> pc, cash |-> 0, transactions |-> <<>>, holdings |-> {}]

Init ==
    /\ Account = initialize_database(EmptyTable)
    /\ Holdings = EmptyTable
    /\ Transactions = <<>>
    /\ Watchlist = {}
    /\ result = Outcome("initialize_database", TRUE, "none", FALSE, NoMsg)
    /\ faulted = FALSE
    /\ calls = 0
    /\ trader = Idle
    /\ reader = Idle
    /\ refresh = Idle

\* MainWindow.__init__ on an existing database file
InitializeDatabase ==
    /\ calls < MaxCalls
    /\ Account' = initialize_database(Account)
    /\ result' = Outcome("initialize_database", TRUE, "none", FALSE, NoMsg)
    /\ calls' = calls + 1
    /\ UNCHANGED <<Holdings, Transactions, Watchlist, faulted>>
    /\ UNCHANGED threadVars

AddVirtualCash ==
    /\ calls < MaxCalls
    /\ \E amount \in Amounts, fault \in {"none", "update_cash_balance", "log_transaction"} :
          LET r == add_virtual_cash(DB, amount, fault)
          IN  /\ Account' = r.db.Account
              /\ Transactions' = r.db.Transactions
              /\ result' = r.result
              /\ faulted' = (faulted \/ r.result.error = "StorageFailure")
    /\ calls' = calls + 1
    /\ UNCHANGED <<Holdings, Watchlist>>
    /\ UNCHANGED threadVars

PlaceOrder ==
    /\ calls < MaxCalls
    /\ \E o \in Orders :
          LET r == Placed(o)
          IN  /\ Account' = r.db.Account
              /\ Holdings' = r.db.Holdings
              /\ Transactions' = r.db.Transactions
              /\ result' = r.result
              /\ faulted' = (faulted \/ r.result.error = "StorageFailure")
    /\ calls' = calls + 1
    /\ UNCHANGED Watchlist
    /\ UNCHANGED threadVars

AddToWatchlist ==
    /\ calls < MaxCalls
    /\ \E symbol \in Symbols :
          /\ Watchlist' = add_to_watchlist(Watchlist, symbol)
          /\ result' = Outcome("add_to_watchlist", TRUE, "none", FALSE, NoMsg)
    /\ calls' = calls + 1
    /\ UNCHANGED <<Account, Holdings, Transactions, faulted>>
    /\ UNCHANGED threadVars

RemoveFromWatchlist ==
    /\ calls < MaxCalls
    /\ \E symbol \in Symbols :
          /\ Watchlist' = remove_from_watchlist(Watchlist, symbol)
          /\ result' = Outcome("remove_from_watchlist", TRUE, "none", FALSE, NoMsg)
    /\ calls' = calls + 1
    /\ UNCHANGED <<Account, Holdings, Transactions, faulted>>
    /\ UNCHANGED threadVars

Next ==
    \/ InitializeDatabase
    \/ AddVirtualCash
    \/ PlaceOrder
    \/ AddToWatchlist
    \/ RemoveFromWatchlist

Spec == Init /\ [][Next]_vars

TypeOK ==
    /\ DOMAIN Account = {1}
    /\ Account[1] \in Int
    /\ DOMAIN Holdings \subseteq Symbols
    /\ Watchlist \subseteq Symbols
    /\ calls \in 0..MaxCalls
    /\ Len(Transactions) <= calls

\* ---- place_order calls that overlap, and a reader beside them ----
\* place_order holds no lock and every portfolio_db function opens its own
\* connection and commits on its own: calls made from two threads, or from two
\* instances of the program on the same database file, interleave between any
\* two storage calls, and inside update_holding between its SELECT and its write.

ThreadOrders ==
    [symbol : Symbols, quantity : {q \in Quantities : q > 0}, order_type : {"BUY", "SELL"},
     quote : QuoteResults \ {NoQuote}]

\* the database after place_order(o) has run alone on db with no storage fault
After(db, o) == place_order(db, o.symbol, o.quantity, o.order_type, o.quote, "none").db

FirstOrder ==
    [symbol |-> "X", quantity |-> 2, order_type |-> "BUY",
     quote |-> [available |-> TRUE, price |-> 20000]]

\* the overlapping calls start on a database with one holding: a fresh database
\* after a BUY of 2 X at 20000
Started ==
    After([Account |-> initialize_database(EmptyTable), Holdings |-> EmptyTable,
           Transactions |-> <<>>], FirstOrder)

InitThreads ==
    /\ Account = Started.Account
    /\ Holdings = Started.Holdings
    /\ Transactions = Started.Transactions
    /\ Watchlist = {}
    /\ result = Outcome("place_order", TRUE, "none", FALSE,
                        Msg(BoughtText, FirstOrder.symbol,
                            <<FirstOrder.quantity, FirstOrder.quote.price>>))
    /\ faulted = FALSE
    /\ calls = 1
    /\ trader \in [Traders -> {Call(o, "place_order") : o \in ThreadOrders}]
    /\ reader = Reading("get_cash_balance")
    /\ refresh = Idle

Returned(c, error) == [c EXCEPT !.pc = "done", !.error = error]

\* place_order up to the funds test: the tests of the arguments, the quote, the
\* read of the cash balance
Begin(t) ==
    /\ trader[t].pc = "place_order"
    /\ LET o == trader[t].order
           total_cost == o.quote.price * o.quantity
           current_cash == get_cash_balance(Account)
       IN  trader' = [trader EXCEPT ![t] =
               IF Validation(o.quantity, o.order_type) # "none"
               THEN Returned(@, Validation(o.quantity, o.order_type))
               ELSE IF QuoteMissing(o.quote) THEN Returned(@, "QuoteUnavailable")
               ELSE IF o.order_type = "BUY" /\ InsufficientCash(total_cost, current_cash)
               THEN Returned(@, "InsufficientFunds")
               ELSE [@ EXCEPT !.pc = "update_holding"]]
    /\ UNCHANGED <<Account, Holdings, Transactions, Watchlist, result, faulted, calls, reader, refresh>>

\* update_holding, the SELECT of the row of the symbol
SelectHolding(t) ==
    /\ trader[t].pc = "update_holding"
    /\ LET symbol == trader[t].order.symbol
       IN  trader' = [trader EXCEPT ![t].pc = "write_holding",
                                    ![t].row =
                          IF symbol \in DOMAIN Holdings
                          THEN [found |-> TRUE, quantity |-> Holdings[symbol].quantity,
                                average_price |-> Holdings[symbol].average_price]
                          ELSE NoRow]
    /\ UNCHANGED <<Account, Holdings, Transactions, Watchlist, result, faulted, calls, reader, refresh>>

\* table Holdings as far as the SELECT of a call has shown it
Seen(symbol, row) ==
    IF row.found
    THEN InsertRow(EmptyTable, symbol,
                   [quantity |-> row.quantity, average_price |-> row.average_price])
    ELSE EmptyTable

\* the row of the symbol is no longer what the SELECT returned
Stale(symbol, row) == Seen(symbol, row) # [x \in DOMAIN Holdings \cap {symbol} |-> Holdings[x]]

\* the class of the failure that place_order makes of an exception of its try block
Caught(order_type, exc) ==
    IF order_type = "SELL" /\ exc = "ValueError" THEN "InsufficientHoldingError"
    ELSE "StorageFailure"

\* update_holding after its SELECT: the statement it decides on from the row it
\* has read, run on the table as it is now. An UPDATE or DELETE of a row that is
\* gone matches nothing, an INSERT of a symbol that has a row by now breaks the
\* PRIMARY KEY; when another call has written the row in between, SQLite may
\* also refuse the write (database is locked).
WriteHoldingRow(t) ==
    /\ trader[t].pc = "write_holding"
    /\ LET o == trader[t].order
           row == trader[t].row
           quantity_change == IF o.order_type = "BUY" THEN o.quantity ELSE -o.quantity
           uh == update_holding(Seen(o.symbol, row), o.symbol, quantity_change, o.quote.price)
       IN  \E locked \in (IF Stale(o.symbol, row) THEN BOOLEAN ELSE {FALSE}) :
               IF uh.exc # "none"
               THEN /\ trader' = [trader EXCEPT ![t] = Returned(@, Caught(o.order_type, uh.exc))]
                    /\ UNCHANGED Holdings
               ELSE IF locked \/ (~row.found /\ o.symbol \in DOMAIN Holdings)
               THEN /\ trader' = [trader EXCEPT ![t] = Returned(@, Caught(o.order_type, StorageError.exc))]
                    /\ UNCHANGED Holdings
               ELSE /\ trader' = [trader EXCEPT ![t].pc = "update_cash_balance"]
                    /\ Holdings' =
                           IF o.symbol \notin DOMAIN uh.Holdings THEN DeleteRow(Holdings, o.symbol)
                           ELSE IF row.found /\ o.symbol \notin DOMAIN Holdings THEN Holdings
                           ELSE InsertRow(Holdings, o.symbol, uh.Holdings[o.symbol])
    /\ UNCHANGED <<Account, Transactions, Watchlist, result, faulted, calls, reader, refresh>>

\* update_cash_balance(-total_cost) of a BUY, update_cash_balance(total_value) of a SELL
UpdateCash(t) ==
    /\ trader[t].pc = "update_cash_balance"
    /\ LET o == trader[t].order
           total_cost == o.quote.price * o.quantity
       IN  Account' = update_cash_balance(Account,
                          IF o.order_type = "BUY" THEN -total_cost ELSE total_cost)
    /\ trader' = [trader EXCEPT ![t].pc = "log_transaction"]
    /\ UNCHANGED <<Holdings, Transactions, Watchlist, result, faulted, calls, reader, refresh>>

\* log_transaction, and the return of (True, message)
LogTransaction(t) ==
    /\ trader[t].pc = "log_transaction"
    /\ LET o == trader[t].order
       IN  Transactions' =
               log_transaction(Transactions, o.symbol, o.order_type, o.quantity, o.quote.price)
    /\ trader' = [trader EXCEPT ![t] = Returned(@, "none")]
    /\ UNCHANGED <<Account, Holdings, Watchlist, result, faulted, calls, reader, refresh>>

\* the reads of a refresh: the cash balance, the history, the holdings, each a
\* call of its own
ReadCash ==
    /\ reader.pc = "get_cash_balance"
    /\ reader' = [reader EXCEPT !.pc = "get_transactions", !.cash = get_cash_balance(Account)]
    /\ UNCHANGED <<Account, Holdings, Transactions, Watchlist, result, faulted, calls, trader, refresh>>

ReadTransactions ==
    /\ reader.pc = "get_transactions"
    /\ reader' = [reader EXCEPT !.pc = "get_holdings",
                                !.transactions = get_transactions(Transactions)]
    /\ UNCHANGED <<Account, Holdings, Transactions, Watchlist, result, faulted, calls, trader, refresh>>

ReadHoldings ==
    /\ reader.pc = "get_holdings"
    /\ reader' = [reader EXCEPT !.pc = "done", !.holdings = get_holdings(Holdings)]
    /\ UNCHANGED <<Account, Holdings, Transactions, Watchlist, result, faulted, calls, trader, refresh>>

NextThreads ==
    \/ \E t \in Traders : Begin(t)
    \/ \E t \in Traders : SelectHolding(t)
    \/ \E t \in Traders : WriteHoldingRow(t)
    \/ \E t \in Traders : UpdateCash(t)
    \/ \E t \in Traders : LogTransaction(t)
    \/ ReadCash
    \/ ReadTransactions
    \/ ReadHoldings

SpecThreads == InitThreads /\ [][NextThreads]_vars

\* ---- MainWindow.trigger_refresh and its RefreshWorker threads ----
\* trigger_refresh runs in the GUI thread, after every deposit, trade and watchlist
\* change and on a click of the refresh button; RefreshWorker.run runs in a thread
\* of its own and emits finished, queued to the GUI thread, before it returns.

ledgerVars == <<Account, Holdings, Transactions, Watchlist, result, faulted, calls>>

\* the window after __init__: worker_thread is None (0), no worker was created,
\* no on_refresh_finished is queued; triggered counts the trigger_refresh calls
NoRefresh ==
    [worker_thread |-> 0, workers |-> <<>>, button |-> "enabled", queued |-> 0, triggered |-> 0]

InitRefresh ==
    /\ Account = initialize_database(EmptyTable)
    /\ Holdings = EmptyTable
    /\ Transactions = <<>>
    /\ Watchlist \in SUBSET Symbols
    /\ result = Outcome("initialize_database", TRUE, "none", FALSE, NoMsg)
    /\ faulted = FALSE
    /\ calls = 0
    /\ trader = Idle
    /\ reader = Idle
    /\ refresh = NoRefresh

\* QThread.isRunning: from start() until run() has returned
IsRunning(w) == w.state \in {"running", "finishing"}

\* a bug: the test is left out
StillRunning_NoTest(r) == FALSE

\* "self.worker_thread and self.worker_thread.isRunning()"
StillRunning(r) == r.worker_thread # 0 /\ IsRunning(r.workers[r.worker_thread])

\* the symbols a new worker is given
SymbolsToFetch == DOMAIN Holdings \cup Watchlist \cup {"^NSEI", "^BSESN"}

TriggerRefresh ==
    /\ refresh.triggered < MaxRefreshes
    /\ refresh' =
           IF StillRunning(refresh)
           THEN [refresh EXCEPT !.triggered = @ + 1]
           ELSE [refresh EXCEPT
                     !.triggered = @ + 1,
                     !.button = "disabled",
                     !.workers = Append(@, [state |-> "running", symbols |-> SymbolsToFetch]),
                     !.worker_thread = Len(refresh.workers) + 1]
    /\ UNCHANGED <<ledgerVars, trader, reader>>

\* RefreshWorker.run up to self.finished.emit(): the slot is queued, the thread
\* is still running
WorkerRun(w) ==
    /\ w \in 1..Len(refresh.workers)
    /\ refresh.workers[w].state = "running"
    /\ refresh' = [refresh EXCEPT !.workers[w].state = "finishing", !.queued = @ + 1]
    /\ UNCHANGED <<ledgerVars, trader, reader>>

\* run() returns, isRunning() is False from now on
WorkerExit(w) ==
    /\ w \in 1..Len(refresh.workers)
    /\ refresh.workers[w].state = "finishing"
    /\ refresh' = [refresh EXCEPT !.workers[w].state = "finished"]
    /\ UNCHANGED <<ledgerVars, trader, reader>>

\* on_refresh_finished, in the GUI thread
OnRefreshFinished ==
    /\ refresh.queued > 0
    /\ refresh' = [refresh EXCEPT !.queued = @ - 1, !.button = "enabled"]
    /\ UNCHANGED <<ledgerVars, trader, reader>>

NextRefresh ==
    \/ TriggerRefresh
    \/ \E w \in 1..MaxRefreshes : WorkerRun(w)
    \/ \E w \in 1..MaxRefreshes : WorkerExit(w)
    \/ OnRefreshFinished

SpecRefresh == InitRefresh /\ [][NextRefresh]_vars

\* ---- what the claims speak of ----

Cash == get_cash_balance(Account)

\* the states from which the model makes a further call
Calling == calls < MaxCalls

Abs(x) == IF x < 0 THEN -x ELSE x

\* the records of the log T for a symbol and a type: how many, their summed
\* quantity, their summed quantity * price
RECURSIVE LogCount(_, _, _)
LogCount(T, symbol, type) ==
    IF T = <<>> THEN 0
    ELSE (IF Head(T).symbol = symbol /\ Head(T).type = type THEN 1 ELSE 0)
         + LogCount(Tail(T), symbol, type)

RECURSIVE LogQuantity(_, _, _)
LogQuantity(T, symbol, type) ==
    IF T = <<>> THEN 0
    ELSE (IF Head(T).symbol = symbol /\ Head(T).type = type THEN Head(T).quantity ELSE 0)
         + LogQuantity(Tail(T), symbol, type)

RECURSIVE LogCost(_, _, _)
LogCost(T, symbol, type) ==
    IF T = <<>> THEN 0
    ELSE (IF Head(T).symbol = symbol /\ Head(T).type = type
          THEN Head(T).quantity * Head(T).price ELSE 0)
         + LogCost(Tail(T), symbol, type)

\* bought minus sold, by the log
NetQuantity(s) == LogQuantity(Transactions, s, "BUY") - LogQuantity(Transactions, s, "SELL")

\* the last call was a place_order that returned success for a BUY / a SELL
Bought == result.op = "place_order" /\ result.success /\ result.message.template = BoughtText

Sold == result.op = "place_order" /\ result.success /\ result.message.template = SoldText

\* C1: no holding row has a quantity of zero or less; and as long as no storage
\* call has raised, a symbol has a row exactly when the quantity bought minus the
\* quantity sold is strictly positive, and the row holds that quantity.
C1_HoldingIffPositive ==
    /\ \A s \in DOMAIN Holdings : Holdings[s].quantity > 0
    /\ ~faulted =>
          \A s \in Symbols :
              /\ s \in DOMAIN Holdings <=> NetQuantity(s) > 0
              /\ s \in DOMAIN Holdings => Holdings[s].quantity = NetQuantity(s)

\* a SELL of the whole position has just succeeded: the row is gone
C1_Witness == Sold /\ result.message.symbol \notin DOMAIN Holdings

\* C2: the cash balance is never negative after a completed call.
C2_CashNonNegative == Cash >= 0

\* a BUY has succeeded and left less cash than the cheapest share costs
C2_Witness == Bought /\ \A p \in Prices : Cash < p

\* the three effects of a trade, seen in one step
HoldingApplied == Holdings' # Holdings

CashApplied == Account' # Account

LogApplied == Transactions' # Transactions

\* C3: a place_order call applies the holding update, the cash update and the log
\* append all three, or none of them.
C3_AllOrNothing ==
    [][result'.op = "place_order" =>
          \/ HoldingApplied /\ CashApplied /\ LogApplied
          \/ ~HoldingApplied /\ ~CashApplied /\ ~LogApplied]_vars

\* the symbol was only ever bought, every BUY succeeded whole, none was sold
OnlyBought(s) ==
    /\ ~faulted
    /\ LogCount(Transactions, s, "BUY") >= 1
    /\ LogCount(Transactions, s, "SELL") = 0

C5_CashAfterTrade ==
    Calling =>
        \A o \in Asked :
            LET r == Placed(o)
            IN  r.result.success =>
                    get_cash_balance(r.db.Account) =
                        IF o.order_type = "BUY"
                        THEN Cash - o.quote.price * o.quantity
                        ELSE Cash + o.quote.price * o.quantity

\* a SELL has succeeded at a higher price than the BUY before it
C5_Witness == Sold /\ Cash > INITIAL_CASH

\* C6: a place_order that returns success appends exactly one record to the log,
\* with the order's symbol, type, quantity and the quote price.
C6_OneMatchingRecord ==
    Calling =>
        \A o \in Asked :
            LET r == Placed(o)
            IN  r.result.success =>
                    r.db.Transactions =
                        Append(Transactions,
                               [symbol |-> o.symbol, type |-> o.order_type,
                                quantity |-> o.quantity, price |-> o.quote.price])

\* a second trade has succeeded and its record is the last of the log
C6_Witness ==
    /\ (Bought \/ Sold)
    /\ Len(Transactions) >= 2
    /\ Transactions[Len(Transactions)].symbol = result.message.symbol
    /\ Transactions[Len(Transactions)].quantity = result.message.args[1]

\* C7: a BUY whose total cost is above the cash balance changes nothing and
\* fails; it fails with InsufficientFunds, returned and not raised, whenever the
\* balance could be read.
C7_InsufficientFundsNoEffect ==
    Calling =>
        \A o \in Asked :
            (o.order_type = "BUY" /\ o.quote.price * o.quantity > Cash) =>
                LET r == Placed(o)
                IN  /\ r.db = DB
                    /\ ~r.result.success
                    /\ o.fault # "get_cash_balance" =>
                           r.result.error = "InsufficientFunds" /\ ~r.result.raised

\* a BUY was rejected for its cost
C7_Witness ==
    /\ result.op = "place_order"
    /\ result.error = "InsufficientFunds"
    /\ result.message.args[1] > Cash

\* the order reaches the holding test of update_holding
ReachesHolding(o) == o \in Asked /\ o.fault \notin {"get_cash_balance", "update_holding"}

\* C8: a SELL of more than the quantity held changes nothing and fails; it fails
\* with InsufficientHoldingError, returned and not raised, whenever it got a quote
\* and the storage could be read.
C8_OversellNoEffect ==
    Calling =>
        \A o \in Orders :
            ( /\ o.order_type = "SELL"
              /\ o.symbol \in DOMAIN Holdings
              /\ o.quantity > Holdings[o.symbol].quantity ) =>
                LET r == Placed(o)
                IN  /\ r.db = DB
                    /\ ~r.result.success
                    /\ ReachesHolding(o) =>
                           r.result.error = "InsufficientHoldingError" /\ ~r.result.raised

\* a SELL of more than is held was rejected, the row is still there
C8_Witness ==
    /\ result.op = "place_order"
    /\ result.error = "InsufficientHoldingError"
    /\ Len(result.message.args) = 1
    /\ \E s \in DOMAIN Holdings : Holdings[s].quantity = result.message.args[1]

\* C9: a SELL of a symbol without a holding creates no holding, changes neither
\* cash nor log and fails; it fails with InsufficientHoldingError, returned and
\* not raised, whenever it got a quote and the storage could be read.
C9_SellUnownedNoEffect ==
    Calling =>
        \A o \in Orders :
            (o.order_type = "SELL" /\ o.symbol \notin DOMAIN Holdings) =>
                LET r == Placed(o)
                IN  /\ r.db = DB
                    /\ ~r.result.success
                    /\ ReachesHolding(o) =>
                           r.result.error = "InsufficientHoldingError" /\ ~r.result.raised

\* a SELL of a symbol that is not held was rejected
C9_Witness ==
    /\ result.op = "place_order"
    /\ result.error = "InsufficientHoldingError"
    /\ result.message.symbol \in Symbols \ DOMAIN Holdings

\* the average_price of a position that stays is another one after the step
AvgChanged(s) ==
    /\ s \in DOMAIN Holdings
    /\ s \in DOMAIN Holdings'
    /\ Holdings'[s].average_price # Holdings[s].average_price

\* the step is a place_order that returned success for a BUY of s
SuccessfulBuyOf(s) ==
    /\ result'.op = "place_order"
    /\ result'.success
    /\ result'.message.template = BoughtText
    /\ result'.message.symbol = s

\* C10: the average_price of a symbol changes only in a step that is a successful
\* BUY of that symbol; so a successful SELL that leaves a part of the position
\* leaves its average_price.
C10_AvgChangesOnlyBySuccessfulBuy ==
    [][\A s \in Symbols : AvgChanged(s) => SuccessfulBuyOf(s)]_vars

\* C11: a SELL of exactly the quantity held that succeeds removes the holding:
\* get_holdings has no entry for the symbol afterwards; and such a SELL does
\* succeed when it has a quote and no storage call raises.
C11_FullSellRemovesHolding ==
    Calling =>
        \A o \in Asked :
            ( /\ o.order_type = "SELL"
              /\ o.symbol \in DOMAIN Holdings
              /\ o.quantity = Holdings[o.symbol].quantity ) =>
                LET r == Placed(o)
                IN  /\ o.fault = "none" => r.result.success
                    /\ r.result.success =>
                           \A h \in get_holdings(r.db.Holdings) : h.symbol # o.symbol

\* all that was bought of a symbol has just been sold, get_holdings has no entry
C11_Witness ==
    /\ Sold
    /\ ~faulted
    /\ NetQuantity(result.message.symbol) = 0
    /\ \A h \in get_holdings(Holdings) : h.symbol # result.message.symbol

\* every argument list of place_order with every answer of the quote provider,
\* also for the orders that never get as far as asking for it
Probes ==
    [symbol : Symbols, quantity : Quantities, order_type : OrderTypes,
     quote : QuoteResults, fault : {"none"}]

ValidType(o) == o.order_type \in {"BUY", "SELL"}

\* C12: place_order tests order_type, then quantity, then the quote, then (BUY
\* only) the funds, and reports the first that fails: an invalid order_type gives
\* InvalidOrderType whatever the quantity, and the quote provider is asked only
\* once order_type and quantity have passed.
C12_ChecksInOrder ==
    Calling =>
        \A o \in Probes :
            LET r == place_order(DB, o.symbol, o.quantity, o.order_type, o.quote, o.fault)
            IN  /\ ~ValidType(o) => r.result.error = "InvalidOrderType" /\ ~r.asked
                /\ (ValidType(o) /\ o.quantity <= 0) =>
                       r.result.error = "InvalidQuantity" /\ ~r.asked
                /\ (ValidType(o) /\ o.quantity > 0) => r.asked
                /\ (ValidType(o) /\ o.quantity > 0 /\ ~o.quote.available) =>
                       r.result.error = "QuoteUnavailable"
                /\ ( /\ ValidType(o) /\ o.quantity > 0 /\ o.quote.available
                     /\ o.fault = "none" ) =>
                       IF o.order_type = "BUY"
                       THEN (r.result.error = "InsufficientFunds")
                                <=> (o.quote.price * o.quantity > Cash)
                       ELSE r.result.error \in {"none", "InsufficientHoldingError"}

\* an order with an invalid order_type was rejected
C12_Witness == result.op = "place_order" /\ result.error = "InvalidOrderType"

\* C13: place_order with BUY or SELL and a quantity of zero or less fails with
\* InvalidQuantity and changes neither cash, holdings nor log.
C13_InvalidQuantityNoEffect ==
    Calling =>
        \A o \in Unasked :
            (ValidType(o) /\ o.quantity <= 0) =>
                LET r == Placed(o)
                IN  /\ r.db = DB
                    /\ ~r.result.success
                    /\ ~r.result.raised
                    /\ r.result.error = "InvalidQuantity"

\* an order was rejected for its quantity
C13_Witness == result.op = "place_order" /\ result.error = "InvalidQuantity"

\* C14: place_order with BUY or SELL and a positive quantity, when the quote
\* provider has no quote, fails with QuoteUnavailable in a message that names the
\* symbol, and changes neither cash, holdings nor log.
C14_QuoteUnavailableNoEffect ==
    Calling =>
        \A o \in Unasked :
            (ValidType(o) /\ o.quantity > 0) =>
                LET r == Placed(o)
                IN  /\ r.db = DB
                    /\ ~r.result.success
                    /\ ~r.result.raised
                    /\ r.result.error = "QuoteUnavailable"
                    /\ r.result.message.symbol = o.symbol

\* an order was rejected for want of a quote, the message names a symbol
C14_Witness ==
    /\ result.op = "place_order"
    /\ result.error = "QuoteUnavailable"
    /\ result.message.symbol \in Symbols

IsPrefix(S, T) == Len(S) <= Len(T) /\ SubSeq(T, 1, Len(S)) = S

\* C17: the transaction log is append-only: every step of add_virtual_cash,
\* place_order, the watchlist operations and initialize_database leaves the log
\* of the state before as a prefix of the log of the state after.
C17_LogAppendOnly == [][IsPrefix(Transactions, Transactions')]_vars

\* a log of two records or more has been through an initialize_database
C17_Witness == result.op = "initialize_database" /\ Len(Transactions) >= 2

\* C18: every failure message returned by place_order names the symbol of the
\* order, and with it the amounts of the failure: the cost and the cash for
\* InsufficientFunds, the held quantity for InsufficientHoldingError.
C18_FailureMessagesNameSymbol ==
    (result.op = "place_order" /\ ~result.success /\ ~result.raised) =>
        /\ result.message.symbol \in Symbols
        /\ result.error = "InsufficientFunds" => Len(result.message.args) = 2
        /\ result.error = "InsufficientHoldingError" => Len(result.message.args) = 1

\* C19: add_virtual_cash with an amount of zero or less returns failure and
\* changes neither cash nor log; with a positive amount it adds exactly the
\* amount to the cash, appends exactly one record CASH, DEPOSIT, 1, amount to
\* the log and leaves the holdings as they are.
C19_AddVirtualCash ==
    Calling =>
        \A amount \in Amounts, fault \in {"none", "update_cash_balance", "log_transaction"} :
            LET r == add_virtual_cash(DB, amount, fault)
            IN  /\ amount <= 0 => ~r.result.success /\ r.db = DB
                /\ amount > 0 =>
                       /\ get_cash_balance(r.db.Account) = Cash + amount
                       /\ r.db.Transactions =
                              Append(Transactions, [symbol |-> "CASH", type |-> "DEPOSIT",
                                                    quantity |-> 1, price |-> amount])
                       /\ r.db.Holdings = Holdings

\* the symbol has no holding row and the log has a SELL of it
SoldOut(s) == s \notin DOMAIN Holdings /\ LogCount(Transactions, s, "SELL") > 0

\* C20: once a symbol is sold out, a BUY of it that succeeds creates the holding
\* with the bought quantity and the price of that BUY's quote as average_price;
\* and the BUY succeeds when the cash covers it and no storage call raises.
C20_BuyAfterSellOutStartsAfresh ==
    Calling =>
        \A o \in Asked :
            (o.order_type = "BUY" /\ SoldOut(o.symbol)) =>
                LET r == Placed(o)
                IN  /\ (o.fault = "none" /\ o.quote.price * o.quantity <= Cash) =>
                           r.result.success
                    /\ r.result.success =>
                           r.db.Holdings[o.symbol] =
                               [quantity |-> o.quantity, average_price |-> o.quote.price]

\* a symbol was bought, sold out and bought again at another price: the holding
\* has the quantity and the price of the last BUY
C20_Witness ==
    /\ Bought
    /\ Len(Transactions) = 3
    /\ Transactions[1].type = "BUY"
    /\ Transactions[2].type = "SELL"
    /\ Transactions[3].type = "BUY"
    /\ Transactions[2].symbol = Transactions[1].symbol
    /\ Transactions[3].symbol = Transactions[1].symbol
    /\ Transactions[2].quantity = Transactions[1].quantity
    /\ Transactions[3].price # Transactions[1].price
    /\ Transactions[3].symbol \in DOMAIN Holdings
    /\ Holdings[Transactions[3].symbol] =
           [quantity |-> Transactions[3].quantity, average_price |-> Transactions[3].price]

\* the two calls have returned
BothDone == \A t \in Traders : trader[t].pc = "done"

\* the other of the two calls
Other(t) == 3 - t

\* the database after the order of call t, then the order of the other call,
\* have run one after the other
Serial(t) == After(After(Started, trader[t].order), trader[Other(t)].order)

\* C15: two place_order calls that overlap leave the cash, the holdings and the
\* log that the two orders leave when run one after the other, in one of the
\* two orders.
C15_Serialized ==
    BothDone =>
        \E t \in Traders :
            /\ Cash = get_cash_balance(Serial(t).Account)
            /\ Holdings = Serial(t).Holdings
            /\ Transactions = Serial(t).Transactions

\* the reader has read the cash, the holdings and the log of database db
Shows(db) ==
    /\ reader.cash = get_cash_balance(db.Account)
    /\ reader.holdings = get_holdings(db.Holdings)
    /\ reader.transactions = get_transactions(db.Transactions)

\* C16: what a reader beside place_order has read of cash, holdings and
\* transactions is a database with all or none of the three effects of each trade.
C16_ReaderSeesWholeTrades ==
    reader.pc = "done" =>
        \/ Shows(Started)
        \/ \E t \in Traders : Shows(After(Started, trader[t].order))
        \/ \E t \in Traders : Shows(Serial(t))

\* C21: a BUY whose total cost is exactly the cash balance is not refused with
\* InsufficientFunds; it succeeds when no storage call raises, and when it
\* succeeds the cash balance is exactly zero.
C21_BuyOfAllCashAccepted ==
    Calling =>
        \A o \in Asked :
            (o.order_type = "BUY" /\ o.quote.price * o.quantity = Cash) =>
                LET r == Placed(o)
                IN  /\ r.result.error # "InsufficientFunds"
                    /\ o.fault = "none" => r.result.success
                    /\ r.result.success => get_cash_balance(r.db.Account) = 0

\* a BUY has succeeded and has taken all the cash
C21_Witness == Bought /\ ~faulted /\ Cash = 0

\* the sum of price over the records of a type in the log T
RECURSIVE LogPrice(_, _)
LogPrice(T, type) ==
    IF T = <<>> THEN 0
    ELSE (IF Head(T).type = type THEN Head(T).price ELSE 0) + LogPrice(Tail(T), type)

\* the sum of quantity * price over the records of a type in the log T
RECURSIVE LogValue(_, _)
LogValue(T, type) ==
    IF T = <<>> THEN 0
    ELSE (IF Head(T).type = type THEN Head(T).quantity * Head(T).price ELSE 0)
         + LogValue(Tail(T), type)

\* C22: in every state the cash balance is INITIAL_CASH plus the deposits, minus
\* the cost of the BUY records, plus the proceeds of the SELL records of the log.
C22_CashMatchesLog ==
    Cash = INITIAL_CASH + LogPrice(Transactions, "DEPOSIT")
                        - LogValue(Transactions, "BUY")
                        + LogValue(Transactions, "SELL")

\* the row of a symbol in table H, if there is one
Row(H, s) == IF s \in DOMAIN H THEN <<H[s]>> ELSE <<>>

\* the step is a place_order call
PlaceOrderStep == result'.op = "place_order"

\* the step leaves the holdings of all symbols but s as they are
OnlyTouches(s) == \A x \in Symbols \ {s} : Row(Holdings', x) = Row(Holdings, x)

Running(r) == {w \in 1..Len(r.workers) : IsRunning(r.workers[w])}

\* the step is a call of trigger_refresh
TriggerStep == refresh'.triggered = refresh.triggered + 1

\* C24: at most one RefreshWorker is running at any time; a trigger_refresh
\* called while the current worker is running starts no worker and changes
\* nothing, and a worker is started only in a step before which none is running.
C24_OneWorkerAtATime ==
    [][/\ Cardinality(Running(refresh')) <= 1
       /\ (TriggerStep /\ refresh.worker_thread \in Running(refresh)) =>
              refresh' = [refresh EXCEPT !.triggered = refresh'.triggered]
       /\ Len(refresh'.workers) > Len(refresh.workers) => Running(refresh) = {}]_vars

\* a second worker is running after the first has finished, and a
\* trigger_refresh has been called in vain meanwhile
C24_Witness ==
    /\ Len(refresh.workers) = 2
    /\ refresh.triggered = 3
    /\ refresh.workers[1].state = "finished"
    /\ refresh.workers[2].state = "running"

====
